---- MODULE Spec2Model ----
(***************************************************************************)
(* Workspace managers of chronus: the ecosystem registry and its           *)
(* auto-detection (workspace-manager/auto-discover.ts), the npm and python *)
(* workspace managers (npm.ts, python/python.ts) and the package discovery *)
(* routines with their manifest readers (utils.ts, python/python.ts).      *)
(*                                                                         *)
(* File contents are abstracted to the shapes the code distinguishes: a    *)
(* file is absent, fails to parse, or parses to a value with or without    *)
(* the fields the code reads.                                              *)
(***************************************************************************)
EXTENDS Integers, Sequences, FiniteSets, TLC

\* JavaScript's undefined, as a manifest field value or an omitted argument.
UNDEFINED == "<undefined>"
\* No manager / no error / no value yet.
NONE == "<none>"

(***************************************************************************)
(* The root directory of the workspace                                     *)
(***************************************************************************)

RootFileNames ==
  {"pnpm-workspace.yaml", "rush.json", "package.json", "Cargo.toml",
   "setup.py", "pyproject.toml", "requirements.txt"}

\* What a root file can hold. package.json is parsed by the npm detection;
\* the python markers are present with content that is well-formed
\* ("valid") or not ("invalid"); the markers of the managers whose code is
\* not at hand are only present.
RootContents(f) ==
  CASE f = "package.json" ->
         {"invalid", "noWorkspaces", "workspacesNotArray", "workspaces"}
    [] f \in {"setup.py", "pyproject.toml", "requirements.txt"} ->
         {"valid", "invalid"}
    [] OTHER -> {"valid"}

\* isPathAccessible(host, joinPaths(dir, name))
isPathAccessible(fs, name) == fs[name] # "absent"

\* yaml parse() of the root package.json: it throws, or gives the
\* workspaces field of the parsed object.
ParseRootPackageJson(content) ==
  CASE content = "invalid" ->
         [throws |-> TRUE, workspaces |-> UNDEFINED, isArray |-> FALSE]
    [] content = "noWorkspaces" ->
         [throws |-> FALSE, workspaces |-> UNDEFINED, isArray |-> FALSE]
    [] content = "workspacesNotArray" ->
         [throws |-> FALSE, workspaces |-> "packages/*", isArray |-> FALSE]
    [] content = "workspaces" ->
         [throws |-> FALSE, workspaces |-> "[packages/*]", isArray |-> TRUE]

(***************************************************************************)
(* The detection predicates is(host, dir)                                  *)
(***************************************************************************)

IsPnpm(fs) == isPathAccessible(fs, "pnpm-workspace.yaml")

IsRush(fs) == isPathAccessible(fs, "rush.json")

IsCargo(fs) == isPathAccessible(fs, "Cargo.toml")

\* A detection that forgets the parse and the workspaces check.
IsNpmMarkerOnly(fs) == isPathAccessible(fs, "package.json")

\* npm.ts: readFile throws when the file is absent, parse throws on bad
\* content; both are caught and give false.
IsNpm(fs) ==
  IF ~isPathAccessible(fs, "package.json")
    THEN FALSE
    ELSE LET pkgJson == ParseRootPackageJson(fs["package.json"])
         IN IF pkgJson.throws
              THEN FALSE
              ELSE pkgJson.workspaces # UNDEFINED /\ pkgJson.isArray

\* A detection that forgets requirements.txt.
IsPythonNoRequirements(fs) ==
  isPathAccessible(fs, "setup.py") \/ isPathAccessible(fs, "pyproject.toml")

IsPython(fs) ==
  LET setupPy == isPathAccessible(fs, "setup.py")
      pyprojectToml == isPathAccessible(fs, "pyproject.toml")
      requirementsTxt == isPathAccessible(fs, "requirements.txt")
  IN setupPy \/ pyprojectToml \/ requirementsTxt

Is(type, fs) ==
  CASE type = "pnpm"   -> IsPnpm(fs)
    [] type = "rush"   -> IsRush(fs)
    [] type = "npm"    -> IsNpm(fs)
    [] type = "cargo"  -> IsCargo(fs)
    [] type = "python" -> IsPython(fs)

(***************************************************************************)
(* The registry                                                            *)
(***************************************************************************)

\* A registry that lists python before the node managers.
ecosystemsPythonFirst ==
  << [type |-> "python", aliases |-> {"py"}],
     [type |-> "pnpm",   aliases |-> {}],
     [type |-> "rush",   aliases |-> {}],
     [type |-> "npm",    aliases |-> {}],
     [type |-> "cargo",  aliases |-> {}] >>

\* The registry of auto-discover.ts, in its order. The node entry carries
\* the identity and detection of npm.ts, the python entry those of
\* PythonWorkspaceManager (python/python.ts); pnpm, rush and cargo are known
\* by their type and marker file only.
ecosystems ==
  << [type |-> "pnpm",   aliases |-> {}],
     [type |-> "rush",   aliases |-> {}],
     [type |-> "npm",    aliases |-> {}],
     [type |-> "cargo",  aliases |-> {}],
     [type |-> "python", aliases |-> {"py"}] >>

\* The type arguments tried: absent, "auto", every type and alias, and
\* names that are not registered.
TypeArgs ==
  {UNDEFINED, "auto", "pnpm", "rush", "npm", "cargo", "python", "py",
   "node", "pip", ""}

\* A test that takes every argument as a request for detection.
IsAutoAlways(type) == TRUE

\* type === "auto" || type === undefined
IsAuto(type) == type = "auto" \/ type = UNDEFINED

\* A lookup that compares the canonical type only.
MatchesTypeOnly(ecosystem, type) == ecosystem.type = type

\* ecosystem.aliases?.includes(type) || ecosystem.type === type
Matches(ecosystem, type) == type \in ecosystem.aliases \/ ecosystem.type = type

\* The loop of getWorkspaceManager over the registry, from index i on:
\* the first ecosystem that matches, or the unknown-type error.
RECURSIVE LookupFrom(_, _)
LookupFrom(i, type) ==
  IF i > Len(ecosystems)
    THEN [manager |-> NONE, error |-> "UnknownWorkspaceType"]
    ELSE IF Matches(ecosystems[i], type)
           THEN [manager |-> ecosystems[i].type, error |-> NONE]
           ELSE LookupFrom(i + 1, type)

\* new Map(ecosystems.map((x) => [x.type, x])): canonical type -> index of
\* the manager in the registry.
ecosystemMap ==
  [t \in {ecosystems[i].type : i \in 1..Len(ecosystems)} |->
     (CHOOSE i \in 1..Len(ecosystems) : ecosystems[i].type = t)]

\* getEcosystem(type): ecosystemMap.get(type), or the unknown-type error.
getEcosystem(type) ==
  IF type \in DOMAIN ecosystemMap
    THEN [manager |-> ecosystems[ecosystemMap[type]].type, error |-> NONE]
    ELSE [manager |-> NONE, error |-> "UnknownEcosystemType"]

\* An optional value is a sequence of no element (undefined) or of one.
Absent == <<>>
Some(x) == <<x>>

\* The userConfig.packagePatterns that loadWorkspace is called with.
PackagePatternArgs == {Absent, Some(<<"libs/*">>), Some(<<"libs/*", "apps/*">>)}

\* What load(host, root, config) of a manager globs, or the error it throws
\* before globbing.
Loaded(pats) == [patterns |-> Some(pats), error |-> NONE]
LoadThrows(e) == [patterns |-> Absent, error |-> e]

\* load() of the managers whose code is not at hand: the configured
\* patterns override the patterns of the workspace file, which must exist.
LoadDeclared(marker, fs, packagePatterns) ==
  IF ~isPathAccessible(fs, marker)
    THEN LoadThrows("ManifestMissing")
    ELSE IF packagePatterns # Absent
           THEN Loaded(packagePatterns[1])
           ELSE Loaded(<<marker>>)

\* npm.ts load(host, root): the third argument is not declared; the
\* patterns are the workspaces array of package.json.
LoadNpm(fs, packagePatterns) ==
  IF ~isPathAccessible(fs, "package.json")
    THEN LoadThrows("FileNotFound")
    ELSE LET pkgJson == ParseRootPackageJson(fs["package.json"])
         IN IF pkgJson.throws
              THEN LoadThrows("ParseError")
              ELSE IF pkgJson.workspaces = UNDEFINED
                     THEN LoadThrows("workspaces entry missing in package.json")
                     ELSE IF ~pkgJson.isArray
                            THEN LoadThrows("workspaces is not an array in package.json")
                            ELSE Loaded(<<"packages/*">>)

\* python/python.ts load(host, root): the third argument is not declared;
\* the pattern is always sdk/**.
LoadPython(fs, packagePatterns) == Loaded(<<"sdk/**">>)

\* manager.load(host, root, config)
Load(type, fs, packagePatterns) ==
  CASE type = "pnpm"   -> LoadDeclared("pnpm-workspace.yaml", fs, packagePatterns)
    [] type = "rush"   -> LoadDeclared("rush.json", fs, packagePatterns)
    [] type = "npm"    -> LoadNpm(fs, packagePatterns)
    [] type = "cargo"  -> LoadDeclared("Cargo.toml", fs, packagePatterns)
    [] type = "python" -> LoadPython(fs, packagePatterns)

(***************************************************************************)
(* Manifest readers                                                        *)
(***************************************************************************)

\* The shapes of a candidate directory's package.json.
PkgJsonKinds == {"absent", "invalid", "noName", "emptyName", "noVersion", "full"}

\* The shapes of a candidate directory's pyproject.toml: absent, not
\* parseable, without a name, with an empty project.name, PEP 621
\* (project.name), Poetry (tool.poetry.name), or both tables.
PyprojectKinds ==
  {"absent", "malformed", "noName", "emptyName", "pep621", "pep621NoVersion",
   "poetry", "poetryNoVersion", "both"}

\* The shapes of a candidate directory's setup.py.
SetupPyKinds == {"absent", "noName", "nameOnly", "nameAndVersion"}

\* JSON.parse(file.content) of a package.json.
JSONParse(kind) ==
  CASE kind = "invalid"   -> [throws |-> TRUE,  name |-> UNDEFINED,   version |-> UNDEFINED]
    [] kind = "noName"    -> [throws |-> FALSE, name |-> UNDEFINED,   version |-> "1.0.0"]
    [] kind = "emptyName" -> [throws |-> FALSE, name |-> "",          version |-> "1.0.0"]
    [] kind = "noVersion" -> [throws |-> FALSE, name |-> "node-name", version |-> UNDEFINED]
    [] kind = "full"      -> [throws |-> FALSE, name |-> "node-name", version |-> "1.0.0"]

\* parse(file.content) of a pyproject.toml, and the reads config.project?.name,
\* config.project.version, config.tool?.poetry?.name, config.tool.poetry.version.
ParsePyproject(kind) ==
  LET cfg(t, pn, pv, tn, tv) ==
        [throws |-> t, projectName |-> pn, projectVersion |-> pv,
         poetryName |-> tn, poetryVersion |-> tv]
      U == UNDEFINED
  IN CASE kind = "malformed"       -> cfg(TRUE,  U, U, U, U)
       [] kind = "noName"          -> cfg(FALSE, U, "2.0.0", U, "3.0.0")
       [] kind = "emptyName"       -> cfg(FALSE, "", "2.0.0", U, U)
       [] kind = "pep621"          -> cfg(FALSE, "pep621-name", "2.0.0", U, U)
       [] kind = "pep621NoVersion" -> cfg(FALSE, "pep621-name", U, U, U)
       [] kind = "poetry"          -> cfg(FALSE, U, U, "poetry-name", "3.0.0")
       [] kind = "poetryNoVersion" -> cfg(FALSE, U, U, "poetry-name", U)
       [] kind = "both"            -> cfg(FALSE, "pep621-name", "2.0.0", "poetry-name", "3.0.0")

\* content.match(/name\s*=\s*["']([^"']+)["']/)?.[1] and the same for version.
MatchSetupPy(kind) ==
  CASE kind = "noName"         -> [name |-> UNDEFINED,    version |-> "4.0.0"]
    [] kind = "nameOnly"       -> [name |-> "setup-name", version |-> UNDEFINED]
    [] kind = "nameAndVersion" -> [name |-> "setup-name", version |-> "4.0.0"]

\* JavaScript truthiness of a string-or-undefined value.
Truthy(v) == v # UNDEFINED /\ v # ""

\* v || d
OrElse(v, d) == IF Truthy(v) THEN v ELSE d

\* What a reader task settles with: a Package, undefined, or a rejection;
\* reads lists the manifest files it read, in order.
Package(name, version, relativePath, reads) ==
  [kind |-> "package", name |-> name, version |-> version,
   relativePath |-> relativePath, reads |-> reads]

Undefined(reads) ==
  [kind |-> "undefined", name |-> UNDEFINED, version |-> UNDEFINED,
   relativePath |-> 0, reads |-> reads]

Rejected(reads) ==
  [kind |-> "rejected", name |-> UNDEFINED, version |-> UNDEFINED,
   relativePath |-> 0, reads |-> reads]

Pending ==
  [kind |-> "pending", name |-> UNDEFINED, version |-> UNDEFINED,
   relativePath |-> 0, reads |-> <<>>]

\* utils.ts tryLoadNodePackage: no try/catch around JSON.parse.
tryLoadNodePackage(pkgJson, relativePath) ==
  IF pkgJson # "absent"
    THEN LET parsed == JSONParse(pkgJson)
         IN IF parsed.throws
              THEN Rejected(<<"package.json">>)
              ELSE Package(parsed.name, parsed.version, relativePath, <<"package.json">>)
    ELSE Undefined(<<>>)

\* The setup.py half of tryLoadPythonPackage.
trySetupPy(setupPy, relativePath, reads) ==
  IF setupPy # "absent"
    THEN LET m == MatchSetupPy(setupPy)
             r == Append(reads, "setup.py")
         IN IF m.name # UNDEFINED
              THEN Package(m.name, OrElse(m.version, "0.0.0"), relativePath, r)
              ELSE Undefined(r)
    ELSE Undefined(reads)

\* A reader that gives up when pyproject.toml does not parse.
tryLoadPythonPackageNoFallback(pyproject, setupPy, relativePath) ==
  IF pyproject # "absent"
    THEN LET config == ParsePyproject(pyproject)
             r == <<"pyproject.toml">>
         IN IF config.throws
              THEN Undefined(r)
              ELSE IF Truthy(config.projectName)
                     THEN Package(config.projectName,
                                  OrElse(config.projectVersion, "0.0.0"), relativePath, r)
                     ELSE IF Truthy(config.poetryName)
                            THEN Package(config.poetryName,
                                         OrElse(config.poetryVersion, "0.0.0"), relativePath, r)
                            ELSE trySetupPy(setupPy, relativePath, r)
    ELSE trySetupPy(setupPy, relativePath, <<>>)

\* A reader that tries the Poetry table before the PEP 621 table.
tryLoadPythonPackagePoetryFirst(pyproject, setupPy, relativePath) ==
  IF pyproject # "absent"
    THEN LET config == ParsePyproject(pyproject)
             r == <<"pyproject.toml">>
         IN IF config.throws
              THEN trySetupPy(setupPy, relativePath, r)
              ELSE IF Truthy(config.poetryName)
                     THEN Package(config.poetryName,
                                  OrElse(config.poetryVersion, "0.0.0"), relativePath, r)
                     ELSE IF Truthy(config.projectName)
                            THEN Package(config.projectName,
                                         OrElse(config.projectVersion, "0.0.0"), relativePath, r)
                            ELSE trySetupPy(setupPy, relativePath, r)
    ELSE trySetupPy(setupPy, relativePath, <<>>)

\* python/python.ts tryLoadPythonPackage (utils.ts holds the same logic):
\* pyproject.toml first, PEP 621 before Poetry; a throw inside the try or
\* no name falls through to setup.py.
tryLoadPythonPackage(pyproject, setupPy, relativePath) ==
  IF pyproject # "absent"
    THEN LET config == ParsePyproject(pyproject)
             r == <<"pyproject.toml">>
         IN IF config.throws
              THEN trySetupPy(setupPy, relativePath, r)
              ELSE IF Truthy(config.projectName)
                     THEN Package(config.projectName,
                                  OrElse(config.projectVersion, "0.0.0"), relativePath, r)
                     ELSE IF Truthy(config.poetryName)
                            THEN Package(config.poetryName,
                                         OrElse(config.poetryVersion, "0.0.0"), relativePath, r)
                            ELSE trySetupPy(setupPy, relativePath, r)
    ELSE trySetupPy(setupPy, relativePath, <<>>)

(***************************************************************************)
(* Package discovery                                                       *)
(***************************************************************************)

\* The most candidate directories the globs of one load() return.
MaxDirs == 2

\* The most patterns in the workspaces array of the root package.json.
MaxPatterns == 2

\* isDefined
isDefined(x) == x.kind # "undefined"

\* The candidates, in glob order, that pattern p matched.
CandidatesOf(p, ds) == SelectSeq([i \in 1..Len(ds) |-> i], LAMBDA i : ds[i].pat = p)

\* A Promise.all that yields the values in the order the tasks settled.
PromiseAllInSettlingOrder(ids, res, settled) ==
  LET mine == SelectSeq(settled, LAMBDA i : \E k \in 1..Len(ids) : ids[k] = i)
  IN [k \in 1..Len(mine) |-> res[mine[k]]]

\* Promise.all(ids.map(task)): the values in the order of the inputs,
\* whatever the order in which the tasks settled.
PromiseAll(ids, res, settled) == [k \in 1..Len(ids) |-> res[ids[k]]]

\* Array.prototype.flat over the per-pattern results 1..np.
RECURSIVE Flat(_, _)
Flat(perPattern, np) ==
  IF np = 0 THEN <<>> ELSE Flat(perPattern, np - 1) \o perPattern[np]

\* findPackagesFromPattern / findPythonPackages for one glob call:
\* Promise.all over the matches, then filter(isDefined).
findPackages(p, ds, res, settled) ==
  SelectSeq(PromiseAll(CandidatesOf(p, ds), res, settled), isDefined)

\* load(): npm maps findPackagesFromPattern over the workspaces array and
\* flattens; python issues one glob call.
loadPackages(np, ds, res, settled) ==
  Flat([p \in 1..np |-> findPackages(p, ds, res, settled)], np)

(***************************************************************************)
(* Manifest texts and the textual substitutions of the python manager      *)
(*                                                                         *)
(* A text is a sequence of lines, written with single spacing.  A line is  *)
(*   header  [key]              a TOML table header                        *)
(*   yaml    key: val           a key of the YAML rendering (the key may   *)
(*                              be written in double quotes)               *)
(*   assign  key = "val"        a TOML or setup.py assignment              *)
(*   str     "val"              a quoted string standing alone: an entry   *)
(*                              of a dependency array                      *)
(* Keys and values are sequences of tokens, so that a name that is a       *)
(* prefix or a suffix of another is one: my-pkg-b is <<"my-", "pkg-b">>.   *)
(* A maximal run of digits and dots is one token.                          *)
(***************************************************************************)

Header(t) == [kind |-> "header", key |-> <<t>>, quoted |-> FALSE, val |-> <<>>]
Yaml(k, v) == [kind |-> "yaml", key |-> k, quoted |-> FALSE, val |-> v]
YamlQuoted(k, v) == [kind |-> "yaml", key |-> k, quoted |-> TRUE, val |-> v]
Assign(k, v) == [kind |-> "assign", key |-> k, quoted |-> FALSE, val |-> v]
Str(v) == [kind |-> "str", key |-> <<>>, quoted |-> TRUE, val |-> v]

\* [\d.]+ : the tokens made of digits and dots
IsNum(tok) == tok \in {"1.0.0", "2.0.0", "3.8"}

\* [><=!]+ : the operators made of these characters; ~= is not one
IsSetupPyOperator(tok) == tok \in {">=", "==", "<", "<=", ">", "!="}

\* the requirement operators of PEP 440
IsOperator(tok) == IsSetupPyOperator(tok) \/ tok = "~="

Last(s) == s[Len(s)]
EndsWith(s, tok) == Len(s) > 0 /\ Last(s) = tok
StartsWith(s, tok) == Len(s) > 0 /\ s[1] = tok

Min(S) == CHOOSE i \in S : \A j \in S : i <= j

\* String.replace with a pattern without the g flag: the first match only.
\* S is the set of the lines that match, rewritten the text with every
\* line replaced.
ReplaceFirstIn(content, S, rewritten) ==
  IF S = {}
    THEN content
    ELSE [i \in 1..Len(content) |->
            IF i = Min(S) THEN rewritten[i] ELSE content[i]]

\* String.replace with a pattern with the g flag: every match.
ReplaceAllIn(content, S, rewritten) ==
  [i \in 1..Len(content) |-> IF i \in S THEN rewritten[i] ELSE content[i]]

\* /(version:\s*)[\d.]+/ : the text "version:" and a run of digits and dots
\* after it; what precedes "version" is not looked at.
MatchesYamlVersion(line) ==
  /\ line.kind = "yaml"
  /\ ~line.quoted
  /\ EndsWith(line.key, "version")
  /\ Len(line.val) > 0
  /\ IsNum(line.val[1])

YamlVersionMatches(content) ==
  {i \in 1..Len(content) : MatchesYamlVersion(content[i])}

\* `$1${new}` : the run of digits and dots is replaced, what follows it stays.
ReplaceNum(line, new) ==
  IF line.val = <<>> THEN line ELSE [line EXCEPT !.val = new \o Tail(line.val)]

\* (version\s*=\s*)"([^"]+)" : the text "version", an equals sign and a
\* non-empty double-quoted value.
MatchesVersionAssign(line) ==
  /\ line.kind = "assign"
  /\ ~line.quoted
  /\ EndsWith(line.key, "version")
  /\ Len(line.val) > 0

VersionAssignMatches(content) ==
  {i \in 1..Len(content) : MatchesVersionAssign(content[i])}

SetVal(line, new) == [line EXCEPT !.val = new]

IsHeader(line, table) == line.kind = "header" /\ line.key = <<table>>

\* /(\[table\][\s\S]*?)(version\s*=\s*)"([^"]+)"/ : from the first [table]
\* header, the nearest version assignment after it, whatever lies between.
MatchInTable(content, table) ==
  LET H == {h \in 1..Len(content) : IsHeader(content[h], table)}
      V == IF H = {}
             THEN {}
             ELSE {j \in VersionAssignMatches(content) : j > Min(H)}
  IN IF V = {} THEN {} ELSE {Min(V)}

\* The table a line belongs to: the nearest header above it.
TableOf(content, j) ==
  LET H == {h \in 1..(j - 1) : content[h].kind = "header"}
  IN IF H = {} THEN NONE ELSE content[CHOOSE h \in H : \A g \in H : g <= h].key[1]

\* updatePyprojectVersion(content, newVersion)
updatePyprojectVersion(content, newVersion) ==
  LET numReplaced == [i \in 1..Len(content) |-> ReplaceNum(content[i], newVersion)]
      valSet == [i \in 1..Len(content) |-> SetVal(content[i], newVersion)]
      yaml == ReplaceFirstIn(content, YamlVersionMatches(content), numReplaced)
      project == ReplaceFirstIn(content, MatchInTable(content, "project"), valSet)
      poetry == ReplaceFirstIn(content, MatchInTable(content, "tool.poetry"), valSet)
  IN IF yaml # content
       THEN yaml
       ELSE IF project # content THEN project ELSE poetry

\* (N|"N"):\s*[\d.]+ : the name, bare at the end of a key or in quotes as
\* the whole key, a colon and a run of digits and dots.
MatchesYamlDependency(line, depName) ==
  /\ line.kind = "yaml"
  /\ Len(line.val) > 0
  /\ IsNum(line.val[1])
  /\ IF line.quoted THEN line.key = <<depName>> ELSE EndsWith(line.key, depName)

\* `${depName}: ${newVersion}` : the quotes of the key are not written back.
RewriteYamlDependency(line, newVersion) ==
  IF line.val = <<>>
    THEN line
    ELSE [line EXCEPT !.quoted = FALSE, !.val = newVersion \o Tail(line.val)]

\* (N\s*=\s*)"([^"]+)" : an assignment to a key that ends with the name.
MatchesPoetryDependency(line, depName) ==
  /\ line.kind = "assign"
  /\ ~line.quoted
  /\ EndsWith(line.key, depName)
  /\ Len(line.val) > 0

\* The double-quoted strings of a line: a str line and the value of an
\* assignment are quoted, and so is a key written in quotes.
QuotedValStartsWith(line, depName) ==
  line.kind \in {"str", "assign"} /\ StartsWith(line.val, depName)

QuotedKeyStartsWith(line, depName) ==
  line.kind \in {"yaml", "assign"} /\ line.quoted /\ StartsWith(line.key, depName)

\* ("N[^"]*") : a double-quoted string that begins with the name.
MatchesPep621Dependency(line, depName) ==
  QuotedValStartsWith(line, depName) \/ QuotedKeyStartsWith(line, depName)

\* `"${depName}>=${newVersion}"`
Requirement(depName, newVersion) == <<depName, ">=">> \o newVersion

RewritePep621Dependency(line, depName, newVersion) ==
  [line EXCEPT
     !.val = IF QuotedValStartsWith(line, depName)
               THEN Requirement(depName, newVersion) ELSE @,
     !.key = IF QuotedKeyStartsWith(line, depName)
               THEN Requirement(depName, newVersion) ELSE @]

\* A dependency pass that writes the entry down when nothing matches.
updatePyprojectDependencyOrAppend(content, depName, newVersion) ==
  Append(content, Str(Requirement(depName, newVersion)))

\* A dependency pass that stops after the Poetry-style assignments.
updatePyprojectDependencyPoetryOnly(content, depName, newVersion) ==
  ReplaceAllIn(content,
               {i \in 1..Len(content) : MatchesPoetryDependency(content[i], depName)},
               [i \in 1..Len(content) |-> SetVal(content[i], newVersion)])

\* updatePyprojectDependency(content, depName, newVersion)
updatePyprojectDependency(content, depName, newVersion) ==
  LET yaml ==
        ReplaceAllIn(content,
                     {i \in 1..Len(content) : MatchesYamlDependency(content[i], depName)},
                     [i \in 1..Len(content) |-> RewriteYamlDependency(content[i], newVersion)])
      poetry ==
        ReplaceAllIn(content,
                     {i \in 1..Len(content) : MatchesPoetryDependency(content[i], depName)},
                     [i \in 1..Len(content) |-> SetVal(content[i], newVersion)])
      pep621 ==
        ReplaceAllIn(poetry,
                     {i \in 1..Len(poetry) : MatchesPep621Dependency(poetry[i], depName)},
                     [i \in 1..Len(poetry) |-> RewritePep621Dependency(poetry[i], depName, newVersion)])
  IN IF yaml # content THEN yaml ELSE pep621

\* updateSetupPyVersion(content, newVersion):
\* /(version\s*=\s*)["']([^"']+)["']/, the first match.
updateSetupPyVersion(content, newVersion) ==
  ReplaceFirstIn(content, VersionAssignMatches(content),
                 [i \in 1..Len(content) |-> SetVal(content[i], newVersion)])

\* ["']N([><=!]+)[^"']*["'] : a quoted string that is the name, an operator
\* and anything.
MatchesSetupPyDependency(line, depName) ==
  /\ line.kind \in {"str", "assign"}
  /\ Len(line.val) >= 2
  /\ line.val[1] = depName
  /\ IsSetupPyOperator(line.val[2])

\* updateSetupPyDependency(content, depName, newVersion)
updateSetupPyDependency(content, depName, newVersion) ==
  ReplaceAllIn(content,
               {i \in 1..Len(content) : MatchesSetupPyDependency(content[i], depName)},
               [i \in 1..Len(content) |-> SetVal(content[i], Requirement(depName, newVersion))])

\* A patch request: newVersion is optional, dependenciesVersions is the
\* list Object.entries() gives.
PatchRequest(newVersion, deps) ==
  [newVersion |-> newVersion, dependenciesVersions |-> deps]

Dep(name, version) == [name |-> name, version |-> version]

\* if (patchRequest.newVersion): undefined and "" are falsy.
HasNewVersion(patchRequest) ==
  patchRequest.newVersion # Absent /\ patchRequest.newVersion[1] # <<>>

RECURSIVE ForEachPyprojectDependency(_, _, _)
\* for (const [depName, newVersion] of Object.entries(...))
\*   content = updatePyprojectDependency(content, depName, newVersion)
ForEachPyprojectDependency(content, deps, i) ==
  IF i > Len(deps)
    THEN content
    ELSE ForEachPyprojectDependency(
           updatePyprojectDependency(content, deps[i].name, deps[i].version),
           deps, i + 1)

RECURSIVE ForEachSetupPyDependency(_, _, _)
\* for (const [depName, newVersion] of Object.entries(...))
\*   content = updateSetupPyDependency(content, depName, newVersion)
ForEachSetupPyDependency(content, deps, i) ==
  IF i > Len(deps)
    THEN content
    ELSE ForEachSetupPyDependency(
           updateSetupPyDependency(content, deps[i].name, deps[i].version),
           deps, i + 1)

\* The content updateVersionsForPackage writes to pyproject.toml.
PatchPyproject(content, patchRequest) ==
  LET versioned == IF HasNewVersion(patchRequest)
                     THEN updatePyprojectVersion(content, patchRequest.newVersion[1])
                     ELSE content
  IN ForEachPyprojectDependency(versioned, patchRequest.dependenciesVersions, 1)

\* The content updateVersionsForPackage writes to setup.py.
PatchSetupPy(content, patchRequest) ==
  LET versioned == IF HasNewVersion(patchRequest)
                     THEN updateSetupPyVersion(content, patchRequest.newVersion[1])
                     ELSE content
  IN ForEachSetupPyDependency(versioned, patchRequest.dependenciesVersions, 1)

(***************************************************************************)
(* The manifests and the patch requests that are tried                     *)
(***************************************************************************)

\* The longest manifest text, in lines.
MaxLines == 3

\* The number of calls of updateVersionsForPackage that are followed.
MaxCalls == 2

TextsOver(L, n) == UNION {[1..k -> L] : k \in 0..n}

\* pyproject.toml as yaml's stringify() renders it, as in the tests.
YamlLines ==
  { Yaml(<<"name">>, <<"pkg-a">>),
    Yaml(<<"version">>, <<"1.0.0">>),
    Yaml(<<"python_", "version">>, <<"3.8">>),
    Yaml(<<"pkg-b">>, <<"1.0.0">>),
    YamlQuoted(<<"pkg-b">>, <<"1.0.0">>),
    Yaml(<<"my-", "pkg-b">>, <<"1.0.0">>),
    Yaml(<<"pkg-c">>, <<"1.0.0">>) }

YamlTexts == TextsOver(YamlLines, MaxLines)

\* pyproject.toml in TOML.
TomlHeaders == {Header("project"), Header("tool.poetry"), Header("tool.other")}

TomlLines ==
  TomlHeaders \cup
  { Assign(<<"name">>, <<"pkg-b", "-utils">>),
    Assign(<<"version">>, <<"1.0.0">>),
    Assign(<<"pkg-b">>, <<"1.0.0">>),
    Str(<<"pkg-b", "==", "1.0.0">>),
    Str(<<"pkg-b", "~=", "1.0.0">>),
    Str(<<"pkg-b", "<", "1.0.0">>),
    Str(<<"pkg-b">>),
    Str(<<"pkg-b", "ar", ">=", "1.0.0">>) }

\* A TOML manifest begins with a table header.
TomlTexts ==
  {<<h>> \o t : h \in TomlHeaders, t \in TextsOver(TomlLines, MaxLines - 1)}

\* setup.py: the arguments of setup() and the entries of install_requires.
SetupPyLines ==
  { Assign(<<"name">>, <<"pkg-a">>),
    Assign(<<"version">>, <<"1.0.0">>),
    Str(<<"pkg-b", ">=", "1.0.0">>),
    Str(<<"pkg-b", "~=", "1.0.0">>),
    Str(<<"pkg-b", "ar", ">=", "1.0.0">>),
    Str(<<"pkg-b">>) }

SetupPyTexts == TextsOver(SetupPyLines, MaxLines)

\* createSetupPy({name: "pkg-a", version: "1.0.0"}) of the tests
SetupPyOfTests ==
  <<Assign(<<"name">>, <<"pkg-a">>), Assign(<<"version">>, <<"1.0.0">>)>>

PatchRequests ==
  { PatchRequest(Absent, <<>>),
    PatchRequest(Some(<<"2.0.0">>), <<>>),
    PatchRequest(Some(<<"2.0.0", "-rc1">>), <<>>),
    PatchRequest(Absent, <<Dep("pkg-b", <<"2.0.0">>)>>),
    PatchRequest(Absent, <<Dep("pkg-b", <<"2.0.0", "-rc1">>)>>),
    PatchRequest(Absent, <<Dep("pkg-z", <<"2.0.0">>)>>),
    PatchRequest(Some(<<"2.0.0">>), <<Dep("pkg-b", <<"2.0.0">>)>>),
    PatchRequest(Some(<<"2.0.0">>), <<Dep("pkg-z", <<"2.0.0">>)>>) }

\* The packages of the workspace, by relative path, and their manifests.
PackagePaths == {"sdk/pkg-a", "sdk/pkg-b"}
ManifestNames == {"pyproject.toml", "setup.py"}

\* resolvePath(workspace.path, pkg.relativePath, name)
resolvePath(relativePath, name) == [dir |-> relativePath, name |-> name]

ManifestPaths == {resolvePath(d, n) : d \in PackagePaths, n \in ManifestNames}

\* The manifests of a workspace: pkg-a has the given ones, pkg-b has the
\* setup.py of the tests.
Manifests(pyproject, setupPy) ==
  [p \in ManifestPaths |->
     IF p.dir = "sdk/pkg-a"
       THEN IF p.name = "pyproject.toml" THEN pyproject ELSE setupPy
       ELSE IF p.name = "setup.py" THEN Some(SetupPyOfTests) ELSE Absent]

\* The workspaces that are patched.
Workspaces ==
  {Manifests(Some(t), s) : t \in YamlTexts \cup TomlTexts,
                           s \in {Absent, Some(SetupPyOfTests)}}
  \cup {Manifests(Absent, Some(t)) : t \in SetupPyTexts}
  \cup {Manifests(Absent, Absent)}

\* await isPathAccessible(host, path)
isManifestAccessible(fs, path) == fs[path] # Absent

\* A choice of the manifest that looks for setup.py first.
SetupPyFirstManifest(fs, relativePath) ==
  IF isManifestAccessible(fs, resolvePath(relativePath, "setup.py"))
    THEN Some(resolvePath(relativePath, "setup.py"))
    ELSE IF isManifestAccessible(fs, resolvePath(relativePath, "pyproject.toml"))
           THEN Some(resolvePath(relativePath, "pyproject.toml"))
           ELSE Absent

\* The manifest updateVersionsForPackage works on: pyproject.toml when it
\* is accessible, else setup.py when it is, else none.
TargetManifest(fs, relativePath) ==
  IF isManifestAccessible(fs, resolvePath(relativePath, "pyproject.toml"))
    THEN Some(resolvePath(relativePath, "pyproject.toml"))
    ELSE IF isManifestAccessible(fs, resolvePath(relativePath, "setup.py"))
           THEN Some(resolvePath(relativePath, "setup.py"))
           ELSE Absent

\* The substitutions that go with a manifest.
Patch(path, content, patchRequest) ==
  IF path.name = "pyproject.toml"
    THEN PatchPyproject(content, patchRequest)
    ELSE PatchSetupPy(content, patchRequest)

\* The errors that are thrown, by the place that throws them, and the class
\* of the object thrown: every one is a ChronusError with a message.
ErrorClass ==
  [e \in {"NoWorkspaceDetected", "UnknownWorkspaceType", "UnknownEcosystemType",
          "workspaces entry missing in package.json",
          "workspaces is not an array in package.json",
          "updateVersionsForPackage not yet implemented for npm"} |->
     "ChronusError"]

(***************************************************************************)
(* State                                                                   *)
(***************************************************************************)

VARIABLES
  files,      \* the root directory: file name -> "absent" or its content
  pc,         \* where the current call is
  entry,      \* the entry point called
  reqType,    \* its type argument
  idx,        \* findWorkspaceManager: the index of the ecosystem tried next
  isLog,      \* the is() calls of the current call and their results
  manager,    \* the manager returned by getWorkspaceManager (its type)
  error,      \* the error thrown
  loadedBy,   \* the manager whose load() was called
  userPatterns, \* loadWorkspace: userConfig.packagePatterns, if given
  loadPatterns, \* the patterns that load() expanded, once it has
  loadError,  \* the error load() threw
  mgr,        \* discovery: the manager whose load() runs ("npm" or "python")
  patterns,   \* the number of glob patterns load() expands
  dirs,       \* the candidate directories in glob order, with their manifests
  slots,      \* what each candidate's reader task settled with
  settled,    \* the candidates in the order their tasks settled
  dpc,        \* where load() is
  packages,   \* the packages load() returned
  pfiles,     \* the manifests of the workspace: path -> content, if any
  atLoad,     \* the manifests as they were when load() read them
  umgr,       \* the manager whose updateVersionsForPackage is called
  upkg,       \* the package it is called for (its relative path)
  patch,      \* the patch request
  upc,        \* where updateVersionsForPackage is
  target,     \* the manifest it works on, if any
  content,    \* its local variable content
  ulog,       \* the reads and writes of the current call
  uerror,     \* the error it threw
  calls,      \* the number of calls made
  before,     \* the manifests when the current call began
  afterFirst  \* the manifests when the first call ended

loadVars == <<userPatterns, loadPatterns, loadError>>

resolveVars ==
  <<files, pc, entry, reqType, idx, isLog, manager, error, loadedBy, loadVars>>

discoverVars == <<mgr, patterns, dirs, slots, settled, dpc, packages>>

patchVars ==
  <<pfiles, atLoad, umgr, upkg, patch, upc, target, content, ulog, uerror,
    calls, before, afterFirst>>

vars == <<resolveVars, discoverVars, patchVars>>

\* No call of the resolution entry points is under way.
ResolveIdle ==
  /\ files = [f \in RootFileNames |-> "absent"]
  /\ pc = "idle"
  /\ entry = NONE
  /\ reqType = NONE
  /\ idx = 0
  /\ isLog = <<>>
  /\ manager = NONE
  /\ error = NONE
  /\ loadedBy = NONE
  /\ userPatterns = Absent
  /\ loadPatterns = Absent
  /\ loadError = NONE

\* No load() is under way.
DiscoverIdle ==
  /\ mgr = NONE
  /\ patterns = 0
  /\ dirs = <<>>
  /\ slots = <<>>
  /\ settled = <<>>
  /\ dpc = "idle"
  /\ packages = <<>>

\* No updateVersionsForPackage() is under way.
PatchIdle ==
  /\ pfiles = Manifests(Absent, Absent)
  /\ atLoad = pfiles
  /\ umgr = NONE
  /\ upkg = NONE
  /\ patch = PatchRequest(Absent, <<>>)
  /\ upc = "idle"
  /\ target = Absent
  /\ content = <<>>
  /\ ulog = <<>>
  /\ uerror = NONE
  /\ calls = 0
  /\ before = pfiles
  /\ afterFirst = pfiles

ResolveInit == ResolveIdle /\ DiscoverIdle /\ PatchIdle

\* host.addFile(path, content) of the test host, between calls.
AddFile(f, c) ==
  /\ pc = "idle"
  /\ files' = [files EXCEPT ![f] = c]
  /\ UNCHANGED <<pc, entry, reqType, idx, isLog, manager, error, loadedBy>>
  /\ UNCHANGED loadVars
  /\ UNCHANGED <<discoverVars, patchVars>>

\* getWorkspaceManager(host, root, type), called directly or by loadWorkspace.
GetWorkspaceManager(e, type) ==
  /\ pc = "idle"
  /\ entry' = e
  /\ reqType' = type
  /\ isLog' = <<>>
  /\ loadedBy' = NONE
  /\ IF IsAuto(type)
       THEN /\ pc' = "find"
            /\ idx' = 1
            /\ manager' = NONE
            /\ error' = NONE
       ELSE LET r == LookupFrom(1, type)
            IN /\ manager' = r.manager
               /\ error' = r.error
               /\ idx' = 0
               /\ pc' = IF r.error = NONE /\ e = "loadWorkspace" THEN "load" ELSE "done"
  /\ loadPatterns' = Absent
  /\ loadError' = NONE
  /\ UNCHANGED files
  /\ UNCHANGED <<discoverVars, patchVars>>

\* A caller calls getWorkspaceManager(host, root, type).
CallGetWorkspaceManager(type) ==
  /\ GetWorkspaceManager("getWorkspaceManager", type)
  /\ userPatterns' = Absent

\* loadWorkspace(host, root, type, userConfig) up to its first await: the
\* call of getWorkspaceManager.
LoadWorkspace(type, packagePatterns) ==
  /\ GetWorkspaceManager("loadWorkspace", type)
  /\ userPatterns' = packagePatterns

\* getEcosystem(type)
GetEcosystem(type) ==
  /\ pc = "idle"
  /\ entry' = "getEcosystem"
  /\ reqType' = type
  /\ LET r == getEcosystem(type)
     IN manager' = r.manager /\ error' = r.error
  /\ isLog' = <<>>
  /\ loadedBy' = NONE
  /\ idx' = 0
  /\ pc' = "done"
  /\ userPatterns' = Absent
  /\ loadPatterns' = Absent
  /\ loadError' = NONE
  /\ UNCHANGED files
  /\ UNCHANGED <<discoverVars, patchVars>>

\* One iteration of the loop of findWorkspaceManager, or its final throw.
FindWorkspaceManagerStep ==
  /\ pc = "find"
  /\ IF idx > Len(ecosystems)
       THEN /\ error' = "NoWorkspaceDetected"
            /\ pc' = "done"
            /\ UNCHANGED <<idx, isLog, manager>>
       ELSE LET ecosystem == ecosystems[idx]
                res == Is(ecosystem.type, files)
            IN /\ isLog' = Append(isLog, [type |-> ecosystem.type, res |-> res])
               /\ IF res
                    THEN /\ manager' = ecosystem.type
                         /\ pc' = IF entry = "loadWorkspace" THEN "load" ELSE "done"
                         /\ idx' = idx
                    ELSE /\ idx' = idx + 1
                         /\ UNCHANGED <<manager, pc>>
               /\ error' = error
  /\ UNCHANGED <<files, entry, reqType, loadedBy>>
  /\ UNCHANGED loadVars
  /\ UNCHANGED <<discoverVars, patchVars>>

\* loadWorkspace: manager.load(host, root, config) on the manager obtained,
\* config.packagePatterns being userConfig?.packagePatterns.
LoadWorkspaceLoad ==
  /\ pc = "load"
  /\ loadedBy' = manager
  /\ LET r == Load(manager, files, userPatterns)
     IN loadPatterns' = r.patterns /\ loadError' = r.error
  /\ pc' = "done"
  /\ UNCHANGED <<files, entry, reqType, idx, isLog, manager, error, userPatterns>>
  /\ UNCHANGED <<discoverVars, patchVars>>

\* manager.is(host, dir) called directly, as the managers' tests do.
CallIs(type) ==
  /\ pc = "idle"
  /\ entry' = "is"
  /\ reqType' = type
  /\ isLog' = <<[type |-> type, res |-> Is(type, files)]>>
  /\ manager' = NONE
  /\ error' = NONE
  /\ loadedBy' = NONE
  /\ idx' = 0
  /\ pc' = "done"
  /\ userPatterns' = Absent
  /\ loadPatterns' = Absent
  /\ loadError' = NONE
  /\ UNCHANGED files
  /\ UNCHANGED <<discoverVars, patchVars>>

\* The call has returned or thrown; its locals are gone.
Return ==
  /\ pc = "done"
  /\ pc' = "idle"
  /\ entry' = NONE
  /\ reqType' = NONE
  /\ idx' = 0
  /\ isLog' = <<>>
  /\ manager' = NONE
  /\ error' = NONE
  /\ loadedBy' = NONE
  /\ userPatterns' = Absent
  /\ loadPatterns' = Absent
  /\ loadError' = NONE
  /\ UNCHANGED files
  /\ UNCHANGED <<discoverVars, patchVars>>

ResolveNext ==
  \/ \E f \in RootFileNames : \E c \in RootContents(f) : AddFile(f, c)
  \/ \E type \in TypeArgs : CallGetWorkspaceManager(type)
  \/ \E type \in TypeArgs : \E pp \in PackagePatternArgs : LoadWorkspace(type, pp)
  \/ \E type \in TypeArgs \ {UNDEFINED} : GetEcosystem(type)
  \/ FindWorkspaceManagerStep
  \/ LoadWorkspaceLoad
  \/ \E i \in 1..Len(ecosystems) : CallIs(ecosystems[i].type)
  \/ Return

SpecResolve == ResolveInit /\ [][ResolveNext]_vars

(***************************************************************************)
(* load(): discovery over the candidate directories                        *)
(***************************************************************************)

\* The manifests a candidate directory can hold for the reader of manager m.
DirRecords(m, np) ==
  IF m = "npm"
    THEN [path : 1..MaxDirs, pat : 1..np, pkgJson : PkgJsonKinds,
          pyproject : {"absent"}, setupPy : {"absent"}]
    ELSE [path : 1..MaxDirs, pat : 1..np, pkgJson : {"absent"},
          pyproject : PyprojectKinds, setupPy : SetupPyKinds]

\* What the glob calls of one load() can return: n distinct directories,
\* the patterns in the order of the list; the host lists the directories
\* in ascending or in descending order of their paths.
GlobResults(m, np) ==
  UNION { { ds \in [1..n -> DirRecords(m, np)] :
              /\ \A i, j \in 1..n : i < j => ds[i].pat <= ds[j].pat
              /\ \/ \A i \in 1..n : ds[i].path = i
                 \/ \A i \in 1..n : ds[i].path = n + 1 - i } :
          n \in 0..MaxDirs }

DiscoverInit ==
  /\ ResolveIdle
  /\ PatchIdle
  /\ mgr \in {"npm", "python"}
  /\ patterns \in 1..MaxPatterns
  /\ mgr = "python" => patterns = 1
  /\ dirs \in GlobResults(mgr, patterns)
  /\ slots = <<>>
  /\ settled = <<>>
  /\ dpc = "idle"
  /\ packages = <<>>

\* load() is called: the globs are expanded and one reader task is started
\* for every candidate directory.
StartLoad ==
  /\ dpc = "idle"
  /\ mgr # NONE
  /\ dpc' = "reading"
  /\ slots' = [i \in 1..Len(dirs) |-> Pending]
  /\ UNCHANGED <<mgr, patterns, dirs, settled, packages>>
  /\ UNCHANGED <<resolveVars, patchVars>>

\* The reader task of candidate i runs to its end, in any order relative to
\* the other tasks.
ReadManifest(i) ==
  /\ dpc = "reading"
  /\ slots[i].kind = "pending"
  /\ slots' = [slots EXCEPT ![i] =
                 IF mgr = "npm"
                   THEN tryLoadNodePackage(dirs[i].pkgJson, dirs[i].path)
                   ELSE tryLoadPythonPackage(dirs[i].pyproject, dirs[i].setupPy,
                                             dirs[i].path)]
  /\ settled' = Append(settled, i)
  /\ UNCHANGED <<mgr, patterns, dirs, dpc, packages>>
  /\ UNCHANGED <<resolveVars, patchVars>>

\* Every task has fulfilled: the Promise.all calls resolve and load() returns.
LoadReturn ==
  /\ dpc = "reading"
  /\ \A i \in 1..Len(dirs) : slots[i].kind \in {"package", "undefined"}
  /\ packages' = loadPackages(patterns, dirs, slots, settled)
  /\ dpc' = "returned"
  /\ UNCHANGED <<mgr, patterns, dirs, slots, settled>>
  /\ UNCHANGED <<resolveVars, patchVars>>

\* A task has rejected: Promise.all rejects and load() throws its error.
LoadReject ==
  /\ dpc = "reading"
  /\ \E i \in 1..Len(dirs) : slots[i].kind = "rejected"
  /\ dpc' = "rejected"
  /\ UNCHANGED <<mgr, patterns, dirs, slots, settled, packages>>
  /\ UNCHANGED <<resolveVars, patchVars>>

DiscoverNext ==
  \/ StartLoad
  \/ \E i \in 1..Len(dirs) : ReadManifest(i)
  \/ LoadReturn
  \/ LoadReject

SpecDiscover == DiscoverInit /\ [][DiscoverNext]_vars

(***************************************************************************)
(* updateVersionsForPackage()                                              *)
(***************************************************************************)

PatchInit ==
  /\ ResolveIdle
  /\ DiscoverIdle
  /\ umgr \in {"python", "npm"}
  /\ upkg \in PackagePaths
  /\ pfiles \in Workspaces
  /\ umgr = "npm" => upkg = "sdk/pkg-a" /\ pfiles = Manifests(Absent, Absent)
  /\ upkg = "sdk/pkg-b" =>
       pfiles \in {Manifests(Absent, Absent),
                   Manifests(Some(<<Yaml(<<"version">>, <<"1.0.0">>)>>),
                             Some(SetupPyOfTests))}
  /\ atLoad = pfiles
  /\ patch \in PatchRequests
  /\ upc = "idle"
  /\ target = Absent
  /\ content = <<>>
  /\ ulog = <<>>
  /\ uerror = NONE
  /\ calls = 0
  /\ before = pfiles
  /\ afterFirst = pfiles

\* Between load() and the first call something else rewrites the manifest
\* of the package: its last line goes.
ExternalEdit ==
  /\ upc = "idle"
  /\ calls = 0
  /\ pfiles = atLoad
  /\ LET t == TargetManifest(pfiles, upkg)
     IN /\ t # Absent
        /\ Len(pfiles[t[1]][1]) > 0
        /\ pfiles' = [pfiles EXCEPT
                        ![t[1]] = Some(SubSeq(@[1], 1, Len(@[1]) - 1))]
  /\ UNCHANGED <<atLoad, umgr, upkg, patch, upc, target, content, ulog, uerror,
                 calls, before, afterFirst>>
  /\ UNCHANGED <<resolveVars, discoverVars>>

\* PythonWorkspaceManager.updateVersionsForPackage up to the read: the two
\* isPathAccessible checks choose the manifest; with neither it returns.
UpdateVersionsForPackage ==
  /\ umgr = "python"
  /\ upc = "idle"
  /\ calls < MaxCalls
  /\ calls' = calls + 1
  /\ before' = pfiles
  /\ target' = TargetManifest(pfiles, upkg)
  /\ upc' = IF target' = Absent THEN "done" ELSE "read"
  /\ afterFirst' = IF target' = Absent /\ calls = 0 THEN pfiles ELSE afterFirst
  /\ content' = <<>>
  /\ ulog' = <<>>
  /\ uerror' = NONE
  /\ UNCHANGED <<pfiles, atLoad, umgr, upkg, patch>>
  /\ UNCHANGED <<resolveVars, discoverVars>>

\* host.readFile(path) and the substitutions on the content read.
ReadTarget ==
  /\ upc = "read"
  /\ content' = Patch(target[1], pfiles[target[1]][1], patch)
  /\ ulog' = Append(ulog, [op |-> "read", path |-> target[1]])
  /\ upc' = "write"
  /\ UNCHANGED <<pfiles, atLoad, umgr, upkg, patch, target, uerror, calls,
                 before, afterFirst>>
  /\ UNCHANGED <<resolveVars, discoverVars>>

\* host.writeFile(path, content) and the return.
WriteTarget ==
  /\ upc = "write"
  /\ pfiles' = [pfiles EXCEPT ![target[1]] = Some(content)]
  /\ ulog' = Append(ulog, [op |-> "write", path |-> target[1]])
  /\ afterFirst' = IF calls = 1 THEN pfiles' ELSE afterFirst
  /\ upc' = "done"
  /\ UNCHANGED <<atLoad, umgr, upkg, patch, target, content, uerror, calls, before>>
  /\ UNCHANGED <<resolveVars, discoverVars>>

\* updateVersionsForPackage of the npm manager: it throws at once.
NpmUpdateVersionsForPackage ==
  /\ umgr = "npm"
  /\ upc = "idle"
  /\ calls < MaxCalls
  /\ calls' = calls + 1
  /\ before' = pfiles
  /\ afterFirst' = IF calls = 0 THEN pfiles ELSE afterFirst
  /\ uerror' = "updateVersionsForPackage not yet implemented for npm"
  /\ ulog' = <<>>
  /\ upc' = "done"
  /\ UNCHANGED <<pfiles, atLoad, umgr, upkg, patch, target, content>>
  /\ UNCHANGED <<resolveVars, discoverVars>>

\* The call has returned or thrown; its locals are gone.
UpdateReturn ==
  /\ upc = "done"
  /\ upc' = "idle"
  /\ target' = Absent
  /\ content' = <<>>
  /\ ulog' = <<>>
  /\ uerror' = NONE
  /\ UNCHANGED <<pfiles, atLoad, umgr, upkg, patch, calls, before, afterFirst>>
  /\ UNCHANGED <<resolveVars, discoverVars>>

PatchNext ==
  \/ ExternalEdit
  \/ UpdateVersionsForPackage
  \/ ReadTarget
  \/ WriteTarget
  \/ NpmUpdateVersionsForPackage
  \/ UpdateReturn

SpecPatch == PatchInit /\ [][PatchNext]_vars

(***************************************************************************)
(* Properties of detection and resolution                                  *)
(***************************************************************************)

\* The call getWorkspaceManager (directly or inside loadWorkspace) has
\* returned or thrown.
Resolved ==
  /\ entry \in {"getWorkspaceManager", "loadWorkspace"}
  /\ pc \in {"load", "done"}

\* The indices, in the order pnpm, rush, npm, cargo, python, of the managers
\* whose is(root) holds.
DetectedIn(priority, fs) == {i \in 1..Len(priority) : Is(priority[i], fs)}

\* C1: with type "auto" or undefined the manager returned is the first of
\* pnpm, rush, npm, cargo, python whose is(root) is true, whatever the order
\* in which the files were added; if none is true the call throws the
\* no-workspace-detected error and returns no manager.
C1_AutoDetectsFirstMatch ==
  (Resolved /\ reqType \in {"auto", UNDEFINED}) =>
    LET priority == <<"pnpm", "rush", "npm", "cargo", "python">>
        detected == DetectedIn(priority, files)
    IN IF detected = {}
         THEN error = "NoWorkspaceDetected" /\ manager = NONE
         ELSE /\ error = NONE
              /\ \E i \in detected :
                   /\ \A j \in detected : i <= j
                   /\ manager = priority[i]

\* A root that is both an npm workspace and a python workspace was resolved
\* to npm.
C1_Witness ==
  /\ Resolved /\ pc = "done" /\ reqType = "auto"
  /\ IsNpm(files) /\ IsPython(files)
  /\ manager = "npm"

\* C2: a forced registered type X returns X's manager without any is()
\* call, whatever the root holds, and loadWorkspace then calls X's load.
C2_ForcedBypassesDetection ==
  (Resolved /\ reqType \in {"pnpm", "rush", "npm", "cargo", "python"}) =>
    /\ manager = reqType
    /\ error = NONE
    /\ isLog = <<>>
    /\ (entry = "loadWorkspace" /\ pc = "done") => loadedBy = reqType

\* loadWorkspace(root, "python") called load of the python manager on a root
\* without any python marker (and with the markers of another ecosystem).
C2_Witness ==
  /\ entry = "loadWorkspace" /\ pc = "done" /\ reqType = "python"
  /\ ~IsPython(files) /\ IsPnpm(files)
  /\ loadedBy = "python"

\* The manager a name denotes: its canonical type or one of its aliases.
NameOwner(t) ==
  CASE t \in {"pnpm", "rush", "npm", "cargo", "python"} -> t
    [] t = "py" -> "python"
    [] OTHER -> NONE

\* C3: for a type argument t other than "auto", getWorkspaceManager returns
\* the manager whose type is t or whose aliases contain t, and throws the
\* unknown-type error exactly when t is neither a type nor an alias.
C3_ResolutionByName ==
  (Resolved /\ reqType \notin {"auto", UNDEFINED}) =>
    /\ manager = NameOwner(reqType)
    /\ (error = "UnknownWorkspaceType") <=> (NameOwner(reqType) = NONE)
    /\ error \in {NONE, "UnknownWorkspaceType"}

\* The alias "py" resolved to the python manager.
C3_Witness ==
  /\ Resolved /\ reqType = "py" /\ manager = "python" /\ error = NONE

\* The marker files of the ecosystems whose detection code is at hand.
Markers(type) ==
  CASE type = "python" -> {"setup.py", "pyproject.toml", "requirements.txt"}
    [] type = "npm"    -> {"package.json"}
    [] type = "pnpm"   -> {"pnpm-workspace.yaml"}
    [] type = "rush"   -> {"rush.json"}
    [] type = "cargo"  -> {"Cargo.toml"}

\* C4 as stated: every is(root) is true exactly when one of the ecosystem's
\* marker files is present, whatever its content.
C4_Original ==
  \A k \in 1..Len(isLog) :
    isLog[k].res <=> (\E f \in Markers(isLog[k].type) : files[f] # "absent")

\* C4 amended: is(root) of the python manager is true exactly when one of
\* setup.py, pyproject.toml, requirements.txt is present, whatever its
\* content; is(root) of the npm manager is true exactly when package.json is
\* present, parses, and has a workspaces field that is an array.
C4_IsByMarkersOrWorkspaces ==
  \A k \in 1..Len(isLog) :
    /\ isLog[k].type = "python" =>
         (isLog[k].res <=> (\E f \in Markers("python") : files[f] # "absent"))
    /\ isLog[k].type = "npm" =>
         (isLog[k].res <=> (files["package.json"] = "workspaces"))

\* Detection ran over a root whose package.json does not parse and whose
\* only python marker is a requirements.txt with bad content: npm said no,
\* python said yes.
C4_Witness ==
  /\ files["package.json"] = "invalid"
  /\ files["requirements.txt"] = "invalid"
  /\ files["setup.py"] = "absent" /\ files["pyproject.toml"] = "absent"
  /\ \E k \in 1..Len(isLog) : isLog[k] = [type |-> "npm", res |-> FALSE]
  /\ \E k \in 1..Len(isLog) : isLog[k] = [type |-> "python", res |-> TRUE]

(***************************************************************************)
(* Properties of discovery and of the manifest readers                     *)
(***************************************************************************)

\* The candidates whose reader task has settled.
Settled == {i \in 1..Len(slots) : slots[i].kind # "pending"}

\* C5: whatever the order in which the reader tasks settle, the packages
\* load() returns are the packages of the candidates in glob order (pattern
\* after pattern, each pattern's matches in match order), the candidates
\* without a package left out.
C5_PackagesInGlobOrder ==
  dpc = "returned" =>
    LET withPackage == {i \in 1..Len(dirs) : slots[i].kind = "package"}
    IN /\ Len(packages) = Cardinality(withPackage)
       /\ \E f \in [1..Len(packages) -> 1..Len(dirs)] :
            /\ \A k, l \in 1..Len(packages) : k < l => f[k] < f[l]
            /\ \A k \in 1..Len(packages) :
                 f[k] \in withPackage /\ packages[k] = slots[f[k]]

\* Two npm patterns matched one directory each, the second directory's task
\* settled first and its path sorts first, and load() returned the first
\* pattern's package first.
C5_Witness ==
  /\ dpc = "returned" /\ mgr = "npm" /\ Len(dirs) = 2
  /\ dirs[1].pat = 1 /\ dirs[2].pat = 2
  /\ dirs[1].path > dirs[2].path
  /\ settled = <<2, 1>>
  /\ Len(packages) = 2
  /\ packages[1].relativePath = dirs[1].path

\* C6: a manifest that does not parse never makes a reader task reject nor
\* load() fail.
C6_ParseFailuresNotPropagated ==
  /\ \A i \in 1..Len(slots) : slots[i].kind # "rejected"
  /\ dpc # "rejected"

\* C7: a directory whose pyproject.toml does not parse yields the package
\* of its setup.py when that has a name assignment, and otherwise nothing:
\* it is left out of the result; the python load() never fails.
C7_MalformedPyprojectFallsBack ==
  /\ mgr = "python" => dpc # "rejected"
  /\ \A i \in Settled :
       (mgr = "python" /\ dirs[i].pyproject = "malformed") =>
         IF dirs[i].setupPy \in {"nameOnly", "nameAndVersion"}
           THEN /\ slots[i].kind = "package"
                /\ slots[i].name = "setup-name"
                /\ slots[i].relativePath = dirs[i].path
                /\ dpc = "returned" => \E k \in 1..Len(packages) : packages[k] = slots[i]
           ELSE /\ slots[i].kind = "undefined"
                /\ dpc = "returned" =>
                     \A k \in 1..Len(packages) : packages[k].relativePath # dirs[i].path

\* load() returned with one directory read from setup.py after its
\* pyproject.toml failed to parse, and another such directory without a
\* setup.py left out.
C7_Witness ==
  /\ dpc = "returned" /\ mgr = "python" /\ Len(dirs) = 2
  /\ \E i, j \in 1..2 :
       /\ dirs[i].pyproject = "malformed" /\ dirs[i].setupPy = "nameAndVersion"
       /\ dirs[j].pyproject = "malformed" /\ dirs[j].setupPy = "absent"
       /\ packages = <<slots[i]>>
       /\ slots[i].name = "setup-name"

\* C8: every package load() returns has a non-empty name.
C8_PackageNamesNonEmpty ==
  dpc = "returned" =>
    \A k \in 1..Len(packages) : packages[k].name # UNDEFINED /\ packages[k].name # ""

\* The manifest a package was read from has no version field.
VersionMissing(d, pkg) ==
  \/ d.pkgJson = "noVersion"
  \/ pkg.name = "pep621-name" /\ d.pyproject = "pep621NoVersion"
  \/ pkg.name = "poetry-name" /\ d.pyproject = "poetryNoVersion"
  \/ pkg.name = "setup-name" /\ d.setupPy = "nameOnly"

\* C9: a package never has an undefined version, and a package read from a
\* manifest without a version field has the version "0.0.0".
C9_MissingVersionDefaults ==
  \A i \in Settled :
    slots[i].kind = "package" =>
      /\ slots[i].version # UNDEFINED
      /\ VersionMissing(dirs[i], slots[i]) => slots[i].version = "0.0.0"

\* C10: the python reader returns the package of the first of PEP 621
\* project.name, Poetry tool.poetry.name, setup.py name assignment that
\* yields a name, each with the version of the same source; it reads
\* setup.py only if pyproject.toml is absent, does not parse or yields no
\* name; it returns undefined only if no source yields a name.
C10_PythonSourcePrecedence ==
  \A i \in Settled :
    mgr = "python" =>
      LET py == dirs[i].pyproject
          sp == dirs[i].setupPy
          r == slots[i]
          pep == py \in {"pep621", "pep621NoVersion", "both"}
          poetry == py \in {"poetry", "poetryNoVersion", "both"}
          setup == sp \in {"nameOnly", "nameAndVersion"}
          readsSetup == \E k \in 1..Len(r.reads) : r.reads[k] = "setup.py"
      IN /\ pep => r.name = "pep621-name" /\ r.version \in {"2.0.0", "0.0.0"}
         /\ (~pep /\ poetry) => r.name = "poetry-name" /\ r.version \in {"3.0.0", "0.0.0"}
         /\ (~pep /\ ~poetry /\ setup) =>
              r.name = "setup-name" /\ r.version \in {"4.0.0", "0.0.0"}
         /\ (r.kind = "undefined") <=> (~pep /\ ~poetry /\ ~setup)
         /\ r.kind \in {"package", "undefined"}
         /\ readsSetup => (~pep /\ ~poetry)

\* A directory with both tables in pyproject.toml and a named setup.py was
\* read as the PEP 621 package without reading setup.py, and a directory
\* whose pyproject.toml has no name was read from setup.py.
C10_Witness ==
  /\ mgr = "python" /\ Len(dirs) = 2 /\ Settled = {1, 2}
  /\ \E i, j \in 1..2 :
       /\ dirs[i].pyproject = "both" /\ dirs[i].setupPy = "nameAndVersion"
       /\ slots[i].name = "pep621-name" /\ slots[i].reads = <<"pyproject.toml">>
       /\ dirs[j].pyproject = "noName" /\ dirs[j].setupPy = "nameOnly"
       /\ slots[j].name = "setup-name"

(***************************************************************************)
(* Properties of updateVersionsForPackage                                  *)
(***************************************************************************)

\* A call of the python manager has worked on a manifest and returned.
Patched ==
  umgr = "python" /\ upc = "done" /\ target # Absent /\ Len(ulog) = 2

PatchedPyproject == Patched /\ target[1].name = "pyproject.toml"

\* The text of the manifest before the call and after it.
Old == before[target[1]][1]
New == pfiles[target[1]][1]

Changed == {i \in 1..Len(Old) : i > Len(New) \/ New[i] # Old[i]}

\* A line differs in its value only.
OnlyValChanged(old, new) == new = [old EXCEPT !.val = new.val]

VersionOnly(patchRequest) ==
  HasNewVersion(patchRequest) /\ patchRequest.dependenciesVersions = <<>>

DependencyOnly(patchRequest) ==
  ~HasNewVersion(patchRequest) /\ Len(patchRequest.dependenciesVersions) = 1

\* The package's own version field: the key version, in TOML within the
\* [project] or the [tool.poetry] table.
IsOwnVersion(text, i) ==
  /\ text[i].key = <<"version">>
  /\ \/ text[i].kind = "yaml"
     \/ text[i].kind = "assign" /\ TableOf(text, i) \in {"project", "tool.poetry"}

\* C11: a version-only patch of a pyproject.toml changes nothing but the
\* value of the package's own version field; dependency entries and keys
\* whose name merely ends with "version" stay as they were.
C11_VersionOnlyPatchFrame ==
  (PatchedPyproject /\ VersionOnly(patch))
    => /\ Len(New) = Len(Old)
       /\ \A i \in Changed :
            IsOwnVersion(Old, i) /\ OnlyValChanged(Old[i], New[i])

\* C12: updatePyprojectVersion changes at most one line; a key: value line
\* only if it is the first such match; a TOML assignment only if no
\* key: value line matched, and then one of the [project] table, or of the
\* [tool.poetry] table if the [project] table has none; never a version key
\* of another table.
C12_VersionRewriteScoped ==
  (PatchedPyproject /\ VersionOnly(patch))
    => /\ Cardinality(Changed) <= 1
       /\ \A j \in Changed :
            \/ /\ Old[j].kind = "yaml"
               /\ j = Min(YamlVersionMatches(Old))
            \/ /\ Old[j].kind = "assign"
               /\ YamlVersionMatches(Old) = {}
               /\ TableOf(Old, j) \in {"project", "tool.poetry"}
               /\ TableOf(Old, j) = "tool.poetry" =>
                    ~\E k \in VersionAssignMatches(Old) :
                       TableOf(Old, k) = "project"

\* An entry for dependency N: the key N, or a requirement string of N.
IsEntryFor(line, depName) ==
  \/ line.kind \in {"yaml", "assign"} /\ line.key = <<depName>>
  \/ /\ line.kind = "str"
     /\ StartsWith(line.val, depName)
     /\ Len(line.val) = 1 \/ IsOperator(line.val[2])

\* C13: a dependency-only patch {N: v} changes only entries for N, and of
\* them only the version; the package name, its version and the entries of
\* dependencies whose name has N as a prefix or a suffix stay as they were.
C13_DependencyOnlyPatchFrame ==
  (Patched /\ DependencyOnly(patch))
    => LET N == patch.dependenciesVersions[1].name
       IN /\ Len(New) = Len(Old)
          /\ \A i \in Changed :
               /\ IsEntryFor(Old[i], N)
               /\ IsEntryFor(New[i], N)
               /\ New[i].kind = Old[i].kind
               /\ New[i].key = Old[i].key

\* Some pattern of updatePyprojectVersion / updateSetupPyVersion matches.
VersionMatches(path, text) ==
  IF path.name = "pyproject.toml"
    THEN \/ YamlVersionMatches(text) # {}
         \/ MatchInTable(text, "project") # {}
         \/ MatchInTable(text, "tool.poetry") # {}
    ELSE VersionAssignMatches(text) # {}

\* Some pattern of updatePyprojectDependency / updateSetupPyDependency
\* matches.
DependencyMatches(path, text, depName) ==
  IF path.name = "pyproject.toml"
    THEN \E i \in 1..Len(text) :
           \/ MatchesYamlDependency(text[i], depName)
           \/ MatchesPoetryDependency(text[i], depName)
           \/ MatchesPep621Dependency(text[i], depName)
    ELSE \E i \in 1..Len(text) : MatchesSetupPyDependency(text[i], depName)

MatchesNothing(path, text, patchRequest) ==
  /\ HasNewVersion(patchRequest) => ~VersionMatches(path, text)
  /\ \A d \in 1..Len(patchRequest.dependenciesVersions) :
       ~DependencyMatches(path, text, patchRequest.dependenciesVersions[d].name)

\* C14: when no pattern of the patch matches the manifest, the call ends
\* without an error and the file is written back as it was, pyproject.toml
\* and setup.py alike.
C14_NoMatchIsNoOp ==
  (Patched /\ MatchesNothing(target[1], Old, patch))
    => New = Old /\ uerror = NONE /\ pfiles = before

\* A dependency that the manifest does not name is patched in a manifest
\* that names others.
C14_Witness ==
  /\ PatchedPyproject
  /\ MatchesNothing(target[1], Old, patch)
  /\ Len(patch.dependenciesVersions) = 1
  /\ \E i \in 1..Len(Old) : IsEntryFor(Old[i], "pkg-b")
  /\ New = Old

\* C15: the second call with the same patch leaves the manifests as the
\* first call left them.
C15_PatchIdempotent ==
  (umgr = "python" /\ upc = "done" /\ calls = 2) => pfiles = afterFirst

\* A text in TOML: a table header first and no key: value line.
IsToml(text) ==
  /\ Len(text) > 0
  /\ text[1].kind = "header"
  /\ \A i \in 1..Len(text) : text[i].kind # "yaml"

\* C16: in a TOML pyproject.toml a patch of dependency N to v leaves every
\* assignment N = "..." as N = "v" and every array entry "N<constraint>" as
\* exactly "N>=v", whatever the operator was and also when there was none.
C16_TomlDependencyRewrite ==
  (PatchedPyproject /\ IsToml(Old) /\ Len(patch.dependenciesVersions) = 1)
    => LET N == patch.dependenciesVersions[1].name
           v == patch.dependenciesVersions[1].version
       IN /\ Len(New) = Len(Old)
          /\ \A i \in 1..Len(Old) :
               /\ (Old[i].kind = "assign" /\ Old[i].key = <<N>>)
                    => New[i] = Assign(<<N>>, v)
               /\ (Old[i].kind = "str" /\ IsEntryFor(Old[i], N))
                    => New[i] = Str(<<N, ">=">> \o v)

\* Both passes act on one text: a Poetry-style assignment and an array
\* entry with the operator ~=.
C16_Witness ==
  /\ PatchedPyproject
  /\ IsToml(Old)
  /\ Len(patch.dependenciesVersions) = 1
  /\ \E i, j \in 1..Len(Old) :
       /\ Old[i] = Assign(<<"pkg-b">>, <<"1.0.0">>)
       /\ Old[j] = Str(<<"pkg-b", "~=", "1.0.0">>)
       /\ New[i] # Old[i]
       /\ New[j] # Old[j]

\* The manifest the call has to work on, from the files as they were when
\* it began.
ExpectedTarget ==
  IF before[resolvePath(upkg, "pyproject.toml")] # Absent
    THEN Some(resolvePath(upkg, "pyproject.toml"))
    ELSE IF before[resolvePath(upkg, "setup.py")] # Absent
           THEN Some(resolvePath(upkg, "setup.py"))
           ELSE Absent

\* C17: a call works on pyproject.toml if the package has one, else on
\* setup.py; it reads that file as it is when the call is made, writes it
\* once with the result of the substitutions on what it read, and touches
\* no other file; with neither manifest it reads and writes nothing.
C17_SelectReadWriteOnce ==
  (umgr = "python" /\ upc # "idle")
    => /\ upc \in {"read", "write"} => pfiles = before
       /\ upc = "done" =>
            IF ExpectedTarget = Absent
              THEN ulog = <<>> /\ pfiles = before
              ELSE LET t == ExpectedTarget[1]
                   IN /\ ulog = <<[op |-> "read", path |-> t],
                                  [op |-> "write", path |-> t]>>
                      /\ pfiles = [before EXCEPT
                                     ![t] = Some(Patch(t, before[t][1], patch))]

\* Both manifests exist, the pyproject.toml was rewritten after load(), and
\* the call changed it.
C17_Witness ==
  /\ PatchedPyproject
  /\ before[resolvePath(upkg, "setup.py")] # Absent
  /\ before # atLoad
  /\ New # Old

\* C19: updateVersionsForPackage of the npm manager throws before any read
\* or write, and what it throws is of another kind than what is thrown
\* when no workspace is detected, when the type is unknown and when the
\* workspaces entry is missing.
C19_NotImplementedDistinguishable ==
  (umgr = "npm" /\ upc = "done")
    => /\ uerror # NONE
       /\ ulog = <<>>
       /\ pfiles = before
       /\ \A e \in {"NoWorkspaceDetected", "UnknownWorkspaceType",
                    "UnknownEcosystemType",
                    "workspaces entry missing in package.json"} :
            ErrorClass[uerror] # ErrorClass[e]

\* C18: when loadWorkspace is given packagePatterns and load() returns,
\* the patterns that load() expands are exactly the given ones, whichever
\* manager was resolved.
C18_PackagePatternsOverride ==
  (pc = "done" /\ entry = "loadWorkspace" /\ loadedBy # NONE
     /\ userPatterns # Absent /\ loadError = NONE)
    => loadPatterns = userPatterns

\* C20: for every forced name other than "auto", getEcosystem(t) returns
\* the manager that getWorkspaceManager(root, t) returns, and fails when it
\* fails; the alias "py" is such a name.
C20_GetEcosystemAgreesWithForced ==
  (pc = "done" /\ entry = "getEcosystem" /\ reqType # "auto")
    => LET r == LookupFrom(1, reqType)
       IN /\ (error = NONE) <=> (r.error = NONE)
          /\ error = NONE => manager = r.manager

==============================================================================
